---- MODULE Spec2Model ----
(***************************************************************************)
(* Two workflow step executables of machship/test-step:                    *)
(*   Greeter   (src/main.go)                  reads input "name", publishes *)
(*             output "message";                                            *)
(*   Forwarder (src/test-get-request/main.go) POSTs a fixed request         *)
(*             descriptor to the connections proxy and republishes three    *)
(*             fields of the proxy's JSON answer.                           *)
(*                                                                         *)
(* Go strings are sequences of pieces (a piece is a run of ordinary text    *)
(* or one special character).  JSON text on the wire is a sequence of       *)
(* lexemes.  Go interface{} values are tagged records.                      *)
(***************************************************************************)
EXTENDS Integers, Sequences, FiniteSets, TLC

(***************************************************************************)
(* Bounds of the model.                                                     *)
(***************************************************************************)
\* longest response body enumerated lexeme by lexeme
MaxBodyLen == 2
\* longest configuration string built from the special characters
MaxStrLen == 1
\* calls of App.Run made on one App by the test harness
MaxRuns == 2

\* F applied to the value of v, computed once (a local variable)
With(v, F(_)) == CHOOSE r \in {F(x) : x \in {v}} : TRUE

(***************************************************************************)
(* Characters of Go strings that encoding/json treats specially.            *)
(***************************************************************************)
QUOTE == "\""
LT == "<"
\* a byte that is not valid UTF-8
BAD == "\\xff"
\* utf8.RuneError, the replacement character U+FFFD
RuneError == "U+FFFD"
\* the escape sequences encoding/json writes, one lexeme each
EscQuote == "\\\""
EscLT == "\\u003c"
EscRuneError == "\\ufffd"
Space == {" "}

(***************************************************************************)
(* Go values held in an interface{}.                                        *)
(***************************************************************************)
Nil == [kind |-> "nil"]
String(s) == [kind |-> "string", val |-> s]
Float64(n) == [kind |-> "float64", val |-> n]
Bool(b) == [kind |-> "bool", val |-> b]
Map(f) == [kind |-> "map", val |-> f]

\* m[k] on a Go map: the zero value (nil) for a missing key or a nil map
MapIndex(m, k) ==
    IF m.kind = "map" /\ k \in DOMAIN m.val THEN m.val[k] ELSE Nil

(***************************************************************************)
(* Go errors: nil, or a message with the error it wraps (%w).               *)
(***************************************************************************)
NoError == [kind |-> "nil"]
NewError(msg) == [kind |-> "error", msg |-> msg]
\* fmt.Errorf(prefix + ": %w", err)
Errorf(prefix, err) ==
    [kind |-> "error", msg |-> <<prefix, ": ">> \o err.msg, unwrap |-> err]
\* strings.Contains(err.Error(), piece)
ErrorContains(err, piece) ==
    err.kind = "error" /\ \E i \in 1..Len(err.msg) : err.msg[i] = piece

EOF_ == NewError(<<"EOF">>)
ErrUnexpectedEOF == NewError(<<"unexpected EOF">>)
SyntaxError == NewError(<<"invalid character">>)
UnmarshalTypeError == NewError(<<"json: cannot unmarshal into Go value of type map[string]interface {}">>)

(***************************************************************************)
(* encoding/json, writing.                                                  *)
(***************************************************************************)
\* bytewise order of the pieces the model's strings are made of
ByteOrder ==
    <<QUOTE, LT, "Accept", "Authorization", "Bearer token", "Content-Type",
      "GET", "User-Agent", "Visual-Go-Test/1.0", "a", "application/json",
      "body", "duration", "headers", "method", "ok", "status_code",
      "success", "url", RuneError, BAD>>

Rank(p) == CHOOSE i \in 1..Len(ByteOrder) : ByteOrder[i] = p

RECURSIVE Less(_, _)
\* s < t on Go strings
Less(s, t) ==
    IF t = <<>> THEN FALSE
    ELSE IF s = <<>> THEN TRUE
    ELSE IF Head(s) = Head(t) THEN Less(Tail(s), Tail(t))
    ELSE Rank(Head(s)) < Rank(Head(t))

RECURSIVE SortKeys(_)
\* the keys of a map in the order json.Marshal writes them
SortKeys(S) ==
    IF S = {} THEN <<>>
    ELSE With(CHOOSE x \in S : \A y \in S \ {x} : Less(x, y),
              LAMBDA k : With(S \ {k}, LAMBDA rest : <<k>> \o SortKeys(rest)))

\* one character of a string as json.Marshal writes it
EscapePiece(p) ==
    CASE p = QUOTE -> EscQuote
      [] p = LT -> EscLT
      [] p = BAD -> EscRuneError
      [] OTHER -> p

\* a string literal
EncodeString(s) ==
    <<QUOTE>> \o [i \in 1..Len(s) |-> EscapePiece(s[i])] \o <<QUOTE>>

RECURSIVE Marshal(_)
RECURSIVE MarshalMembers(_, _)
MarshalMembers(f, keys) ==
    IF keys = <<>> THEN <<>>
    ELSE EncodeString(Head(keys)) \o <<":">> \o Marshal(f[Head(keys)])
         \o (IF Len(keys) > 1 THEN <<",">> ELSE <<>>)
         \o MarshalMembers(f, Tail(keys))

\* json.Marshal(v)
Marshal(v) ==
    CASE v.kind = "nil" -> <<"null">>
      [] v.kind = "string" -> EncodeString(v.val)
      [] v.kind = "float64" -> <<v.val>>
      [] v.kind = "bool" -> <<IF v.val THEN "true" ELSE "false">>
      [] v.kind = "map" ->
            With(SortKeys(DOMAIN v.val),
                 LAMBDA keys : <<"{">> \o MarshalMembers(v.val, keys) \o <<"}">>)

(***************************************************************************)
(* encoding/json, reading.                                                  *)
(***************************************************************************)
Numerals == {"200", "500"}
Ok(val, next) == [ok |-> TRUE, val |-> val, next |-> next]
Fail(err) == [ok |-> FALSE, err |-> err]

RECURSIVE SkipSpace(_, _)
SkipSpace(w, i) ==
    IF i <= Len(w) /\ w[i] \in Space THEN SkipSpace(w, i + 1) ELSE i

UnescapePiece(p) ==
    CASE p = EscQuote -> QUOTE
      [] p = EscLT -> LT
      [] p = EscRuneError -> RuneError
      [] p = BAD -> RuneError
      [] OTHER -> p

RECURSIVE ScanString(_, _, _)
\* the rest of a string literal whose opening quote was read
ScanString(w, i, acc) ==
    IF i > Len(w) THEN Fail(ErrUnexpectedEOF)
    ELSE IF w[i] = QUOTE THEN Ok(acc, i + 1)
    ELSE ScanString(w, i + 1, Append(acc, UnescapePiece(w[i])))

RECURSIVE ScanValue(_, _)
RECURSIVE ScanObject(_, _, _, _)
\* the members of an object whose opening brace was read; a repeated key
\* keeps its last value
ScanObject(w, i, f, first) ==
    With(SkipSpace(w, i), LAMBDA j :
    IF j > Len(w) THEN Fail(ErrUnexpectedEOF)
    ELSE IF w[j] = "}" /\ first THEN Ok(Map(f), j + 1)
    ELSE IF w[j] # QUOTE THEN Fail(SyntaxError)
    ELSE With(ScanString(w, j + 1, <<>>), LAMBDA key :
         IF ~key.ok THEN key
         ELSE With(SkipSpace(w, key.next), LAMBDA c :
              IF c > Len(w) THEN Fail(ErrUnexpectedEOF)
              ELSE IF w[c] # ":" THEN Fail(SyntaxError)
              ELSE With(ScanValue(w, c + 1), LAMBDA v :
                   IF ~v.ok THEN v
                   ELSE With([k \in DOMAIN f \cup {key.val} |->
                                 IF k = key.val THEN v.val ELSE f[k]], LAMBDA g :
                        With(SkipSpace(w, v.next), LAMBDA e :
                        IF e > Len(w) THEN Fail(ErrUnexpectedEOF)
                        ELSE IF w[e] = "}" THEN Ok(Map(g), e + 1)
                        ELSE IF w[e] = "," THEN ScanObject(w, e + 1, g, FALSE)
                        ELSE Fail(SyntaxError)))))))

\* one JSON value starting at w[i]
ScanValue(w, i) ==
    With(SkipSpace(w, i), LAMBDA j :
    IF j > Len(w) THEN Fail(ErrUnexpectedEOF)
    ELSE CASE w[j] = "{" -> ScanObject(w, j + 1, <<>>, TRUE)
           [] w[j] = QUOTE ->
                With(ScanString(w, j + 1, <<>>), LAMBDA s :
                     IF s.ok THEN Ok(String(s.val), s.next) ELSE s)
           [] w[j] \in Numerals -> Ok(Float64(w[j]), j + 1)
           [] w[j] = "null" -> Ok(Nil, j + 1)
           [] w[j] = "true" -> Ok(Bool(TRUE), j + 1)
           [] w[j] = "false" -> Ok(Bool(FALSE), j + 1)
           [] OTHER -> Fail(SyntaxError))

\* json.NewDecoder(r).Decode(&result), result a map[string]interface{}: reads
\* the first JSON value of the stream and leaves what follows it unread
Decode(w) ==
    IF SkipSpace(w, 1) > Len(w) THEN [val |-> Nil, err |-> EOF_]
    ELSE With(ScanValue(w, 1), LAMBDA r :
         IF ~r.ok THEN [val |-> Nil, err |-> r.err]
         ELSE IF r.val.kind \in {"map", "nil"} THEN [val |-> r.val, err |-> NoError]
         ELSE [val |-> Nil, err |-> UnmarshalTypeError])

\* json.Unmarshal(data, &v), v an interface{} or a map: the whole of data
\* must be one JSON value
Unmarshal(w) ==
    With(ScanValue(w, 1), LAMBDA r :
    IF ~r.ok THEN [val |-> Nil, err |-> SyntaxError]
    ELSE IF SkipSpace(w, r.next) <= Len(w) THEN [val |-> Nil, err |-> SyntaxError]
    ELSE [val |-> r.val, err |-> NoError])

(***************************************************************************)
(* Forwarder: src/test-get-request/main.go.                                 *)
(***************************************************************************)
\* a string map as the Go value json.Marshal sees
StringMap(f) == Map([k \in DOMAIN f |-> String(f[k])])

DefaultConfig ==
    [ConnectionsURL |-> <<"http://localhost:8081/api/v1/connections/send">>,
     TargetURL |-> <<"https://httpbin.org/get">>,
     Headers |-> StringMap([k \in {<<"User-Agent">>, <<"Accept">>} |->
                    IF k = <<"User-Agent">> THEN <<"Visual-Go-Test/1.0">>
                    ELSE <<"application/json">>])]

NewApp(client, config) == [client |-> client, config |-> config]

\* a slip: the descriptor names the method of the outer request
preparePayload_Post(a) ==
    LET payload == [k \in {<<"method">>, <<"url">>, <<"headers">>} |->
                       CASE k = <<"method">> -> String(<<"POST">>)
                         [] k = <<"url">> -> String(a.config.TargetURL)
                         [] k = <<"headers">> -> a.config.Headers]
    IN  [val |-> Marshal(Map(payload)), err |-> NoError]

preparePayload(a) ==
    LET payload == [k \in {<<"method">>, <<"url">>, <<"headers">>} |->
                       CASE k = <<"method">> -> String(<<"GET">>)
                         [] k = <<"url">> -> String(a.config.TargetURL)
                         [] k = <<"headers">> -> a.config.Headers]
    IN  [val |-> Marshal(Map(payload)), err |-> NoError]

\* the call a.client.Post(url, contentType, body) that sendRequest makes
sendRequest(a, payload) ==
    [url |-> a.config.ConnectionsURL, contentType |-> <<"application/json">>,
     body |-> payload]

\* what the client's Post returns
Post(client, call) == [resp |-> client.resp, err |-> client.err]

\* a slip: Close called after a successful decode only, not deferred
parseResponse_NoDefer(r) ==
    LET d == Decode(r.Body.data) IN
    [val |-> d.val, err |-> d.err,
     resp |-> IF d.err = NoError
              THEN [r EXCEPT !.Body.read = TRUE, !.Body.closed = @ + 1]
              ELSE [r EXCEPT !.Body.read = TRUE],
     events |-> IF d.err = NoError THEN <<"Decode", "Close">> ELSE <<"Decode">>]

\* parseResponse: decode the body, then the deferred resp.Body.Close()
parseResponse(r) ==
    LET d == Decode(r.Body.data) IN
    [val |-> d.val, err |-> d.err,
     resp |-> [r EXCEPT !.Body.read = TRUE, !.Body.closed = @ + 1],
     events |-> <<"Decode", "Close">>]

\* a slip: the body is looked up under the name it is published under
setOutputs_WrongKey(res) ==
    [k \in {<<"status_code">>, <<"response_body">>, <<"duration">>} |->
        CASE k = <<"status_code">> -> MapIndex(res, <<"status_code">>)
          [] k = <<"response_body">> -> MapIndex(res, <<"response_body">>)
          [] k = <<"duration">> -> MapIndex(res, <<"duration">>)]

\* the mapping setOutputs passes to SetOutputs
setOutputs(res) ==
    [k \in {<<"status_code">>, <<"response_body">>, <<"duration">>} |->
        CASE k = <<"status_code">> -> MapIndex(res, <<"status_code">>)
          [] k = <<"response_body">> -> MapIndex(res, <<"body">>)
          [] k = <<"duration">> -> MapIndex(res, <<"duration">>)]

(***************************************************************************)
(* The test double and its answers: src/test-get-request/main_test.go.      *)
(***************************************************************************)
NilResponse == [kind |-> "nil"]
NopCloser(w) == [data |-> w, read |-> FALSE, closed |-> 0]
RawResponse(statusCode, w) ==
    [kind |-> "response", StatusCode |-> statusCode, Body |-> NopCloser(w)]
MockResponse(statusCode, body) == RawResponse(statusCode, Marshal(Map(body)))

\* a client whose Post returns (r, e) on every call, as the tests' PostFunc
\* closures do; one call of the real http.Client returns one such pair too
MockHTTPClient(r, e) == [resp |-> r, err |-> e]

SeqsUpTo(S, n) == UNION {[1..k -> S] : k \in 0..n}

\* the objects a proxy answers with: each consumed key absent or present,
\* and a key the step does not consume
ResultMaps ==
    LET Choice == [status_code : {"absent", "200", "null"},
                   body : {"absent", "ok"},
                   duration : {"absent", "10ms"},
                   success : {"absent", "true"}]
        Keys(c) == {k \in {"status_code", "body", "duration", "success"} :
                       c[k] # "absent"}
        Val(v) == CASE v = "200" -> Float64("200")
                    [] v = "null" -> Nil
                    [] v = "true" -> Bool(TRUE)
                    [] OTHER -> String(<<v>>)
    IN  {[k \in {<<x>> : x \in Keys(c)} |-> Val(c[k[1]])] : c \in Choice}

BodyAlphabet == {"{", "}", QUOTE, "null", "200", "invalid json"}

StatusCodes == {"200", "500"}

Responses ==
    {MockResponse(sc, m) : sc \in StatusCodes, m \in ResultMaps}
    \cup {RawResponse(sc, Marshal(Map(m)) \o t) :
            sc \in StatusCodes, m \in ResultMaps,
            t \in {<<"invalid json">>, <<" ", "invalid json">>, <<" ">>}}
    \cup {RawResponse(sc, w) :
            sc \in StatusCodes, w \in SeqsUpTo(BodyAlphabet, MaxBodyLen)}

Clients ==
    {MockHTTPClient(r, NoError) : r \in Responses}
    \cup {MockHTTPClient(NilResponse, NewError(<<m>>)) :
            m \in {"network error", "mock not implemented"}}

\* the configuration of TestApp_preparePayload
TestConfig ==
    [ConnectionsURL |-> <<>>,
     TargetURL |-> <<"https://example.com/test">>,
     Headers |-> StringMap([k \in {<<"Authorization">>, <<"Content-Type">>} |->
                    IF k = <<"Authorization">> THEN <<"Bearer token">>
                    ELSE <<"application/json">>])]

\* strings made of the characters encoding/json treats specially
EdgeStrings == SeqsUpTo({"a", QUOTE, LT, RuneError, BAD}, MaxStrLen)

EdgeHeaders ==
    {Nil, StringMap(<<>>)}
    \cup {StringMap([k \in {key} |-> v]) : key \in EdgeStrings, v \in EdgeStrings}
    \cup {StringMap([k \in {<<RuneError>>, <<BAD>>} |-> k])}

EdgeConfigs ==
    {[DefaultConfig EXCEPT !.TargetURL = s] : s \in EdgeStrings}
    \cup {[DefaultConfig EXCEPT !.Headers = h] : h \in EdgeHeaders}

\* the answers tried against every edge configuration
EdgeClients ==
    {MockHTTPClient(NilResponse, NewError(<<"network error">>)),
     MockHTTPClient(RawResponse("200", <<"invalid json">>), NoError),
     MockHTTPClient(MockResponse("200", <<>>), NoError)}

(***************************************************************************)
(* Greeter: src/main.go.                                                    *)
(***************************************************************************)
\* the message function, defined outside src/main.go
getMessage(n) == <<"Hello, ">> \o n \o <<"!">>

NameStrings == SeqsUpTo({"a", "Bob", "World"}, MaxStrLen + 1)

\* what the host may supply as step inputs
HostInputs ==
    LET NameValues == {String(s) : s \in NameStrings}
                      \cup {Nil, Float64("200"), Bool(TRUE), Map(<<>>)}
    IN  {Nil, Map(<<>>)}
        \cup {Map([k \in {<<"name">>} |-> v]) : v \in NameValues}
        \cup {Map([k \in {<<"name">>, <<"other">>} |->
                    IF k = <<"name">> THEN v ELSE String(<<"a">>)]) :
                v \in NameValues}
        \cup {Map([k \in {<<"other">>} |-> String(<<"Bob">>)])}

(***************************************************************************)
(* State.                                                                   *)
(***************************************************************************)
VARIABLES
    program,          \* which executable (or the test harness) this process is
    pc,               \* the statement about to run
    hostInputs,       \* Greeter: the inputs the host supplies
    inputs,           \* Greeter: main's inputs
    name,             \* Greeter: main's name
    ok,               \* Greeter: main's ok
    msg,              \* Greeter: main's msg
    app,              \* Forwarder: the App (client, config)
    payload,          \* Forwarder: Run's payload
    resp,             \* Forwarder: Run's resp, with the state of its Body
    result,           \* Forwarder: Run's result
    err,              \* Forwarder: the error Run returns
    posts,            \* the calls of client.Post made in this run
    setOutputsCalls,  \* the mappings passed to SetOutputs in this run
    events,           \* the effects of this run, in order
    stdout,           \* what the process wrote to standard output
    stderr,           \* what the process wrote to standard error
    runs,             \* calls of Run that returned
    last              \* what the previous call of Run did

vars == <<program, pc, hostInputs, inputs, name, ok, msg, app, payload, resp,
          result, err, posts, setOutputsCalls, events, stdout, stderr, runs,
          last>>

greeterVars == <<hostInputs, inputs, name, ok, msg>>
runVars == <<payload, resp, result, err, posts>>

NoApp == [kind |-> "nil"]
NoRun == [kind |-> "nil"]

Idle ==
    /\ inputs = Nil /\ name = <<>> /\ ok = FALSE /\ msg = <<>>
    /\ payload = <<>> /\ resp = NilResponse /\ result = Nil /\ err = NoError
    /\ posts = <<>> /\ setOutputsCalls = <<>> /\ events = <<>>
    /\ stdout = <<>> /\ stderr = <<>> /\ runs = 0 /\ last = NoRun

GreeterInit ==
    /\ program = "greeter" /\ pc = "GetInputs"
    /\ hostInputs \in HostInputs
    /\ app = NoApp
    /\ Idle

\* main of the Forwarder: NewApp(&http.Client{}, DefaultConfig())
ForwarderInit ==
    /\ program = "forwarder" /\ pc = "main"
    /\ hostInputs = Nil
    /\ \E c \in Clients : app = NewApp(c, DefaultConfig)
    /\ Idle

\* the tests: NewApp(mockClient, config), then app.Run() once or repeatedly
HarnessInit ==
    /\ program = "test" /\ pc = "main"
    /\ hostInputs = Nil
    /\ \/ \E c \in Clients, cfg \in {DefaultConfig, TestConfig} :
             app = NewApp(c, cfg)
       \/ \E c \in EdgeClients, cfg \in EdgeConfigs : app = NewApp(c, cfg)
    /\ Idle

Init == GreeterInit \/ ForwarderInit \/ HarnessInit

(***************************************************************************)
(* Greeter's main, statement by statement.                                  *)
(***************************************************************************)
GetInputs ==
    /\ program = "greeter" /\ pc = "GetInputs"
    /\ inputs' = hostInputs
    /\ events' = Append(events, "GetInputs")
    /\ pc' = "assert"
    /\ UNCHANGED <<program, hostInputs, name, ok, msg, app, runVars,
                   setOutputsCalls, stdout, stderr, runs, last>>

\* name, ok := inputs["name"].(string)
TypeAssert ==
    /\ program = "greeter" /\ pc = "assert"
    /\ LET v == MapIndex(inputs, <<"name">>) IN
       /\ ok' = (v.kind = "string")
       /\ name' = IF v.kind = "string" THEN v.val ELSE <<>>
    /\ pc' = "default"
    /\ UNCHANGED <<program, hostInputs, inputs, msg, app, runVars,
                   setOutputsCalls, events, stdout, stderr, runs, last>>

\* a slip: if !ok { name = "World" }
ApplyDefault_NoEmptyCheck ==
    /\ program = "greeter" /\ pc = "default"
    /\ name' = IF ~ok THEN <<"World">> ELSE name
    /\ pc' = "getMessage"
    /\ UNCHANGED <<program, hostInputs, inputs, ok, msg, app, runVars,
                   setOutputsCalls, events, stdout, stderr, runs, last>>

\* if !ok || name == "" { name = "World" }
ApplyDefault ==
    /\ program = "greeter" /\ pc = "default"
    /\ name' = IF ~ok \/ name = <<>> THEN <<"World">> ELSE name
    /\ pc' = "getMessage"
    /\ UNCHANGED <<program, hostInputs, inputs, ok, msg, app, runVars,
                   setOutputsCalls, events, stdout, stderr, runs, last>>

GetMessage ==
    /\ program = "greeter" /\ pc = "getMessage"
    /\ msg' = getMessage(name)
    /\ events' = Append(events, "getMessage")
    /\ pc' = "SetOutputs"
    /\ UNCHANGED <<program, hostInputs, inputs, name, ok, app, runVars,
                   setOutputsCalls, stdout, stderr, runs, last>>

GreeterSetOutputs ==
    /\ program = "greeter" /\ pc = "SetOutputs"
    /\ setOutputsCalls' =
          Append(setOutputsCalls, [k \in {<<"message">>} |-> String(msg)])
    /\ events' = Append(events, "SetOutputs")
    /\ pc' = "exit"
    /\ UNCHANGED <<program, greeterVars, app, runVars, stdout, stderr, runs,
                   last>>

(***************************************************************************)
(* App.Run, statement by statement.                                         *)
(***************************************************************************)
RunLimit == IF program = "forwarder" THEN 1 ELSE MaxRuns

\* app.Run() is called: its locals are fresh
CallRun ==
    /\ program \in {"forwarder", "test"} /\ pc = "main"
    /\ runs < RunLimit
    /\ payload' = <<>> /\ resp' = NilResponse /\ result' = Nil
    /\ err' = NoError /\ posts' = <<>> /\ setOutputsCalls' = <<>>
    /\ events' = <<>>
    /\ pc' = "preparePayload"
    /\ UNCHANGED <<program, greeterVars, app, stdout, stderr, runs, last>>

\* a slip: the payload is built after the target URL is extended in place
RunPrepare_MutatesConfig ==
    /\ pc = "preparePayload"
    /\ app' = [app EXCEPT !.config.TargetURL = @ \o <<"a">>]
    /\ payload' = preparePayload(app').val
    /\ pc' = "sendRequest"
    /\ events' = Append(events, "preparePayload")
    /\ UNCHANGED <<program, greeterVars, resp, result, err, posts,
                   setOutputsCalls, stdout, stderr, runs, last>>

RunPrepare ==
    /\ pc = "preparePayload"
    /\ LET r == preparePayload(app) IN
       /\ payload' = r.val
       /\ err' = IF r.err # NoError
                 THEN Errorf("failed to prepare payload", r.err) ELSE err
       /\ pc' = IF r.err # NoError THEN "returned" ELSE "sendRequest"
    /\ events' = Append(events, "preparePayload")
    /\ UNCHANGED <<program, greeterVars, app, resp, result, posts,
                   setOutputsCalls, stdout, stderr, runs, last>>

\* a slip: a failed Post is tried once more
RunSend_Retry ==
    /\ pc = "sendRequest"
    /\ LET call == sendRequest(app, payload)
           r == Post(app.client, call)
           again == r.err # NoError /\ posts = <<>>
       IN  /\ posts' = Append(posts, call)
           /\ resp' = r.resp
           /\ err' = IF r.err # NoError /\ ~again
                     THEN Errorf("failed to send request", r.err) ELSE err
           /\ pc' = IF again THEN "sendRequest"
                    ELSE IF r.err # NoError THEN "returned"
                    ELSE "parseResponse"
    /\ events' = Append(events, "Post")
    /\ UNCHANGED <<program, greeterVars, app, payload, result,
                   setOutputsCalls, stdout, stderr, runs, last>>

\* a slip: the outputs are published before the error is returned
RunSend_PublishOnError ==
    /\ pc = "sendRequest"
    /\ LET call == sendRequest(app, payload)
           r == Post(app.client, call)
       IN  /\ posts' = Append(posts, call)
           /\ resp' = r.resp
           /\ err' = IF r.err # NoError
                     THEN Errorf("failed to send request", r.err) ELSE err
           /\ pc' = IF r.err # NoError THEN "returned" ELSE "parseResponse"
           /\ setOutputsCalls' =
                 IF r.err # NoError
                 THEN Append(setOutputsCalls, setOutputs(result))
                 ELSE setOutputsCalls
           /\ events' = IF r.err # NoError
                        THEN events \o <<"Post", "SetOutputs">>
                        ELSE Append(events, "Post")
    /\ UNCHANGED <<program, greeterVars, app, payload, result, stdout,
                   stderr, runs, last>>

RunSend ==
    /\ pc = "sendRequest"
    /\ LET call == sendRequest(app, payload)
           r == Post(app.client, call)
       IN  /\ posts' = Append(posts, call)
           /\ resp' = r.resp
           /\ err' = IF r.err # NoError
                     THEN Errorf("failed to send request", r.err) ELSE err
           /\ pc' = IF r.err # NoError THEN "returned" ELSE "parseResponse"
    /\ events' = Append(events, "Post")
    /\ UNCHANGED <<program, greeterVars, app, payload, result,
                   setOutputsCalls, stdout, stderr, runs, last>>

\* a slip: the outputs are published before the decode error is returned
RunParse_PublishOnError ==
    /\ pc = "parseResponse"
    /\ LET r == parseResponse(resp) IN
       /\ result' = r.val
       /\ resp' = r.resp
       /\ err' = IF r.err # NoError
                 THEN Errorf("failed to parse response", r.err) ELSE err
       /\ pc' = IF r.err # NoError THEN "returned" ELSE "setOutputs"
       /\ setOutputsCalls' =
             IF r.err # NoError
             THEN Append(setOutputsCalls, setOutputs(r.val))
             ELSE setOutputsCalls
       /\ events' = IF r.err # NoError
                    THEN events \o r.events \o <<"SetOutputs">>
                    ELSE events \o r.events
    /\ UNCHANGED <<program, greeterVars, app, payload, posts, stdout,
                   stderr, runs, last>>

RunParse ==
    /\ pc = "parseResponse"
    /\ LET r == parseResponse(resp) IN
       /\ result' = r.val
       /\ resp' = r.resp
       /\ events' = events \o r.events
       /\ err' = IF r.err # NoError
                 THEN Errorf("failed to parse response", r.err) ELSE err
       /\ pc' = IF r.err # NoError THEN "returned" ELSE "setOutputs"
    /\ UNCHANGED <<program, greeterVars, app, payload, posts,
                   setOutputsCalls, stdout, stderr, runs, last>>

RunSetOutputs ==
    /\ pc = "setOutputs"
    /\ setOutputsCalls' = Append(setOutputsCalls, setOutputs(result))
    /\ events' = Append(events, "SetOutputs")
    /\ err' = NoError
    /\ pc' = "returned"
    /\ UNCHANGED <<program, greeterVars, app, payload, resp, result, posts,
                   stdout, stderr, runs, last>>

ThisRun == [posts |-> posts, err |-> err, outputs |-> setOutputsCalls]

\* main: if err := app.Run(); err != nil { fmt.Printf("Error: %v\n", err) }
MainReturn ==
    /\ program = "forwarder" /\ pc = "returned"
    /\ stdout' = IF err # NoError
                 THEN stdout \o <<"Error: ">> \o err.msg \o <<"\n">>
                 ELSE stdout
    /\ runs' = runs + 1
    /\ last' = ThisRun
    /\ pc' = "exit"
    /\ UNCHANGED <<program, greeterVars, app, runVars, setOutputsCalls,
                   events, stderr>>

\* a test or benchmark gets Run's error back and may call Run again
HarnessReturn ==
    /\ program = "test" /\ pc = "returned"
    /\ runs' = runs + 1
    /\ last' = ThisRun
    /\ pc' = "main"
    /\ UNCHANGED <<program, greeterVars, app, runVars, setOutputsCalls,
                   events, stdout, stderr>>

Next ==
    \/ GetInputs
    \/ TypeAssert
    \/ ApplyDefault
    \/ GetMessage
    \/ GreeterSetOutputs
    \/ CallRun
    \/ RunPrepare
    \/ RunSend
    \/ RunParse
    \/ RunSetOutputs
    \/ MainReturn
    \/ HarnessReturn

Spec == Init /\ [][Next]_vars

\* Run is sequential code: once called, each of its statements is executed
FairSpec ==
    Spec /\ WF_vars(RunPrepare \/ RunSend \/ RunParse \/ RunSetOutputs)

(***************************************************************************)
(* Properties.                                                              *)
(***************************************************************************)
IsForwarder == program \in {"forwarder", "test"}
Count(e) == Cardinality({i \in 1..Len(events) : events[i] = e})
Index(e) == CHOOSE i \in 1..Len(events) : events[i] = e
RunEvents == <<"preparePayload", "Post", "Decode", "Close", "SetOutputs">>

\* the body of the proxy's answer read as one whole JSON text
WholeBody == Unmarshal(app.client.resp.Body.data)

\* what a decoder reads from the body of the proxy's answer
Decoded == Decode(app.client.resp.Body.data)

C1_Case ==
    /\ IsForwarder /\ pc = "returned"
    /\ app.client.err = NoError
    /\ Decoded.err = NoError /\ Decoded.val.kind = "map"

\* a body that is one JSON object decodes to that object
C1_WholeObject ==
    (IsForwarder /\ app.client.err = NoError /\ WholeBody.err = NoError
        /\ WholeBody.val.kind = "map") => Decoded = WholeBody

C1_Published(bodyKey) ==
    /\ err = NoError
    /\ Len(setOutputsCalls) = 1
    /\ LET out == setOutputsCalls[1]
           r == Decoded.val
       IN  /\ DOMAIN out = {<<"status_code">>, bodyKey, <<"duration">>}
           /\ out[<<"status_code">>] = MapIndex(r, <<"status_code">>)
           /\ out[bodyKey] = MapIndex(r, <<"body">>)
           /\ out[<<"duration">>] = MapIndex(r, <<"duration">>)

\* C1 as stated: when the proxy's answer is a JSON object r, whatever its
\* HTTP status, Run returns nil and SetOutputs gets exactly the keys
\* status_code, body, duration holding r's values (nil for a missing key).
C1_Original == C1_Case => C1_Published(<<"body">>)

\* C1, amended: as stated, except that r[body] is published under the key
\* response_body, so the keys are status_code, response_body, duration.
C1_PublishStep ==
    /\ C1_Case => C1_Published(<<"response_body">>)
    /\ C1_WholeObject

\* the answer {status_code:200, body:"ok", duration:"10ms"} with HTTP status
\* 500 was published
C1_Witness ==
    /\ pc = "returned" /\ IsForwarder
    /\ app.client.err = NoError
    /\ app.client.resp.StatusCode = "500"
    /\ app.client.resp.Body.data =
          <<"{", QUOTE, "body", QUOTE, ":", QUOTE, "ok", QUOTE, ",",
            QUOTE, "duration", QUOTE, ":", QUOTE, "10ms", QUOTE, ",",
            QUOTE, "status_code", QUOTE, ":", "200", "}">>
    /\ setOutputsCalls =
          <<[k \in {<<"status_code">>, <<"response_body">>, <<"duration">>} |->
               CASE k = <<"status_code">> -> Float64("200")
                 [] k = <<"response_body">> -> String(<<"ok">>)
                 [] k = <<"duration">> -> String(<<"10ms">>)]>>

ValidUTF8(s) == \A i \in 1..Len(s) : s[i] # BAD

ValidConfig(cfg) ==
    /\ ValidUTF8(cfg.TargetURL)
    /\ cfg.Headers.kind = "map" =>
          \A k \in DOMAIN cfg.Headers.val :
              ValidUTF8(k) /\ ValidUTF8(cfg.Headers.val[k].val)

\* the request descriptor the claim names
Descriptor(cfg) ==
    Map([k \in {<<"method">>, <<"url">>, <<"headers">>} |->
            CASE k = <<"method">> -> String(<<"GET">>)
              [] k = <<"url">> -> String(cfg.TargetURL)
              [] k = <<"headers">> -> cfg.Headers])

C2_Request ==
    /\ pc = "returned" => Len(posts) = 1
    /\ \A i \in 1..Len(posts) :
          /\ posts[i].url = app.config.ConnectionsURL
          /\ posts[i].contentType = <<"application/json">>
          /\ Unmarshal(posts[i].body) =
                [val |-> Descriptor(app.config), err |-> NoError]

C2_Default ==
    (program = "forwarder" /\ posts # <<>>) =>
        LET sent == Unmarshal(posts[1].body).val.val IN
        /\ posts[1].url = <<"http://localhost:8081/api/v1/connections/send">>
        /\ sent[<<"url">>] = String(<<"https://httpbin.org/get">>)
        /\ DOMAIN sent[<<"headers">>].val = {<<"User-Agent">>, <<"Accept">>}

C3_TransportFailure ==
    (IsForwarder /\ posts # <<>> /\ app.client.err # NoError) =>
        /\ pc \in {"returned", "main", "exit"}
        /\ ErrorContains(err, "failed to send request")
        /\ err.unwrap = app.client.err
        /\ setOutputsCalls = <<>>
        /\ Count("Decode") = 0 /\ Count("SetOutputs") = 0
        /\ result = Nil
        /\ Len(posts) = 1 /\ Count("Post") = 1

C3_Witness ==
    /\ pc = "returned" /\ IsForwarder
    /\ app.client.err = NewError(<<"network error">>)
    /\ err.msg = <<"failed to send request", ": ", "network error">>

\* C4 as stated: when Post succeeds and the body is not valid JSON (empty,
\* not JSON at all, or a JSON value followed by other text), Run returns an
\* error containing "failed to parse response" and SetOutputs is not called.
C4_Original ==
    (IsForwarder /\ pc = "returned" /\ app.client.err = NoError
        /\ WholeBody.err # NoError) =>
        /\ ErrorContains(err, "failed to parse response")
        /\ setOutputsCalls = <<>>

\* C5: SetOutputs is called at most once per run; in the Forwarder it is
\* called exactly when Run returns nil and is the run's last effect, after
\* the payload was built, the POST made and the response parsed; in the
\* Greeter it is called exactly once, after the inputs were read.
C5_SetOutputsOnce ==
    /\ Len(setOutputsCalls) <= 1
    /\ Count("SetOutputs") = Len(setOutputsCalls)
    /\ IsForwarder =>
          /\ pc = "returned" => (Len(setOutputsCalls) = 1 <=> err = NoError)
          /\ pc \in {"preparePayload", "sendRequest", "parseResponse",
                     "setOutputs"} => setOutputsCalls = <<>>
          /\ setOutputsCalls # <<>> => events = RunEvents
    /\ program = "greeter" =>
          /\ pc = "exit" =>
                /\ Len(setOutputsCalls) = 1
                /\ events = <<"GetInputs", "getMessage", "SetOutputs">>
          /\ pc # "exit" => setOutputsCalls = <<>>

C5_Witness ==
    /\ program = "test" /\ pc = "returned" /\ runs = 1
    /\ err = NoError /\ Len(setOutputsCalls) = 1 /\ events = RunEvents

\* C6 as stated: when Run returns an error the Forwarder writes a message
\* with the failing stage's prefix to standard error, not to standard
\* output; when Run returns nil nothing is reported.
C6_Original ==
    (program = "forwarder" /\ pc = "exit") =>
        IF err # NoError
        THEN /\ stdout = <<>>
             /\ \E i \in 1..Len(stderr) :
                   stderr[i] \in {"failed to send request",
                                  "failed to parse response"}
        ELSE stdout = <<>> /\ stderr = <<>>

\* the subject the inputs call for
Subject ==
    LET v == MapIndex(hostInputs, <<"name">>) IN
    IF v.kind = "string" /\ v.val # <<>> THEN v.val ELSE <<"World">>

\* C7: the subject passed to the message function is inputs["name"] when
\* that is a non-empty string and "World" otherwise (absent, empty, not a
\* string); the Greeter fails on no input and publishes exactly the key
\* message, holding the message built from that subject.
C7_GreeterDefault ==
    program = "greeter" =>
        /\ pc \in {"GetInputs", "assert", "default", "getMessage",
                   "SetOutputs", "exit"}
        /\ pc = "exit" \/ ENABLED Next
        /\ pc \in {"getMessage", "SetOutputs", "exit"} => name = Subject
        /\ pc \in {"SetOutputs", "exit"} => msg = getMessage(Subject)
        /\ pc = "exit" =>
              setOutputsCalls =
                 <<[k \in {<<"message">>} |-> String(getMessage(Subject))]>>

\* the input name is the empty string and "Hello, World!" was published
C7_Witness ==
    /\ program = "greeter" /\ pc = "exit"
    /\ MapIndex(hostInputs, <<"name">>) = String(<<>>)
    /\ setOutputsCalls =
          <<[k \in {<<"message">>} |-> String(<<"Hello, ">>  \o <<"World">> \o <<"!">>)]>>

\* C8: a second Run on the same App against a proxy answering the same
\* makes the same request, returns the same error or nil and publishes the
\* same outputs as the first; Run leaves the App as it was.
C8_Idempotent ==
    [][/\ app' = app
       /\ (program' = "test" /\ pc' = "returned" /\ runs' >= 1) =>
             /\ posts' = last'.posts
             /\ err' = last'.err
             /\ setOutputsCalls' = last'.outputs]_vars

C8_Witness ==
    /\ program = "test" /\ pc = "returned" /\ runs = 1
    /\ err = NoError /\ Len(setOutputsCalls) = 1
    /\ last.outputs = setOutputsCalls /\ last.posts = posts

\* the state of Run's state machine
Stage ==
    CASE pc = "sendRequest" -> "Prepared"
      [] pc = "parseResponse" -> "Sent"
      [] pc = "setOutputs" -> "Parsed"
      [] pc = "returned" /\ err = NoError -> "Published"
      [] pc = "returned" /\ err # NoError -> "Error"
      [] OTHER -> "None"

StageOrder ==
    {<<"None", "Prepared">>, <<"Prepared", "Sent">>, <<"Sent", "Parsed">>,
     <<"Parsed", "Published">>, <<"None", "Error">>, <<"Prepared", "Error">>,
     <<"Sent", "Error">>, <<"Published", "None">>, <<"Error", "None">>}

C10_BodyClosed ==
    IsForwarder =>
        /\ resp.kind = "response" =>
              /\ resp.Body.closed <= 1
              /\ resp.Body.closed = Count("Close")
              /\ resp.Body.closed = 1 =>
                    resp.Body.read /\ Index("Decode") < Index("Close")
        /\ (pc = "returned" /\ resp.kind = "response") =>
              resp.Body.closed = 1
        /\ (posts # <<>> /\ app.client.err # NoError) =>
              resp = NilResponse /\ Count("Decode") = 0 /\ Count("Close") = 0

\* decoding failed and the body was closed
C10_Witness ==
    /\ IsForwarder /\ pc = "returned"
    /\ ErrorContains(err, "failed to parse response")
    /\ resp.Body.closed = 1 /\ resp.Body.read

====
